---- MODULE Spec2Model ----
(***************************************************************************)
(* A model of sdssdli's DLIController (src/src/sdssdli/controller.py):     *)
(* credential resolution in the constructor, the outlet registry built by  *)
(* reload(), name resolution in get_outlet_number(), and the asynchronous  *)
(* operations state()/on()/off(), interleaved at their awaits.             *)
(*                                                                         *)
(* Python strings are sequences of one-character strings, so that case     *)
(* folding, prefix matching and route formatting are computed, not         *)
(* assumed.  An outlet dict int -> str over 0..n-1 is a sequence whose     *)
(* position i+1 holds the entry of key i.                                  *)
(***************************************************************************)
EXTENDS Integers, Sequences, FiniteSets, TLC

VARIABLES
    name_to_outlet,   \* self._name_to_outlet : CaseInsensitiveDict[str, int]
    outlet_to_name,   \* self._outlet_to_name : dict[int, str]
    devNames,         \* the device: its outlet names, in index order
    task,             \* the coroutines running on the one event loop
    query,            \* a direct call of get_outlet_number and its outcome
    ctor              \* a call of DLIController.__init__ and its outcome

vars == <<name_to_outlet, outlet_to_name, devNames, task, query, ctor>>

----------------------------------------------------------------------------
(* Bounds of the model.                                                    *)

\* The most outlets a modelled device reports.
MaxOutlets == 2
\* The longest identifier handed to get_outlet_number directly.
MaxIdLen == 2

----------------------------------------------------------------------------
(* Strings.                                                                *)

\* str.lower() on the characters the model uses.
LowerChar(c) ==
    CASE c = "A" -> "a"
      [] c = "B" -> "b"
      [] c = "L" -> "l"
      [] OTHER -> c

Lower(s) == [i \in 1..Len(s) |-> LowerChar(s[i])]

\* All sequences over S of length lo..hi.
SeqsOf(S, lo, hi) == UNION {[1..n -> S] : n \in lo..hi}

Digits == <<"0", "1", "2", "3", "4", "5", "6", "7", "8", "9">>

\* str(i) for a non-negative int.
RECURSIVE Str(_)
Str(i) == IF i < 10 THEN <<Digits[i + 1]>> ELSE Str(i \div 10) \o <<Digits[(i % 10) + 1]>>

\* sep.join(parts)
RECURSIVE Join(_, _)
Join(sep, parts) ==
    IF Len(parts) = 0 THEN <<>>
    ELSE IF Len(parts) = 1 THEN parts[1]
    ELSE parts[1] \o sep \o Join(sep, Tail(parts))

ALL == <<"a", "l", "l">>

----------------------------------------------------------------------------
(* Outcomes: a returned value or a raised exception.                       *)

Ok(v) == [ok |-> TRUE, val |-> v, err |-> "none"]
Raise(e) == [ok |-> FALSE, val |-> <<>>, err |-> e]

ErrNotFound  == "ValueError: Cannot find a matching outlet"
ErrTooShort  == "ValueError: At least two characters are required for fuzzy matching."
ErrAmbiguous == "ValueError: Multiple outlet matches found"
ErrEmpty     == "ValueError: No outlets found."
ErrNoOutlets == "ValueError: No outlets defined."
ErrCred      == "ValueError: Cannot find password file or user data."
ErrHttp      == "httpx.HTTPStatusError"
ErrKey       == "KeyError"
ErrRegex     == "re.error"

----------------------------------------------------------------------------
(* CaseInsensitiveDict: entries [key, val] in insertion order; two keys    *)
(* are the same key when their lower-cased forms are equal.  Setting an    *)
(* existing key keeps its position and stores the new key and value.       *)

CIDSet(d, k, v) ==
    IF \E i \in 1..Len(d) : Lower(d[i].key) = Lower(k)
    THEN [i \in 1..Len(d) |->
            IF Lower(d[i].key) = Lower(k) THEN [key |-> k, val |-> v] ELSE d[i]]
    ELSE Append(d, [key |-> k, val |-> v])

\* CaseInsensitiveDict(zip(data, range(len(data)))), the first n pairs.
RECURSIVE CIDFromNames(_, _)
CIDFromNames(data, n) ==
    IF n = 0 THEN <<>>
    ELSE CIDSet(CIDFromNames(data, n - 1), data[n], n - 1)

CIDContains(d, k) == \E i \in 1..Len(d) : Lower(d[i].key) = Lower(k)

CIDGet(d, k) == (CHOOSE e \in {d[i] : i \in 1..Len(d)} : Lower(e.key) = Lower(k)).val

\* list(d): the keys in order.
CIDKeys(d) == [i \in 1..Len(d) |-> d[i].key]

----------------------------------------------------------------------------
(* reload(): the two assignments after the awaited GET.                    *)

BuildNameToOutlet(data) == CIDFromNames(data, Len(data))

\* dict(zip(range(len(data)), data)): key i at position i+1.
BuildOutletToName(data) == data

----------------------------------------------------------------------------
(* get_outlet_number(name, use_fuzzy).                                     *)

\* re.compile(rf"^{name}") fails on an unbalanced parenthesis.
PatternCompiles(name) == \A i \in 1..Len(name) : name[i] # "("

\* re.match(rf"^{name}", oname, re.IGNORECASE) for a pattern that compiles:
\* each character of name is an atom; "." matches any character.
ReMatch(name, oname) ==
    /\ Len(oname) >= Len(name)
    /\ \A i \in 1..Len(name) :
          \/ name[i] = "."
          \/ LowerChar(name[i]) = LowerChar(oname[i])

FuzzyMatches(d, name) == {i \in 1..Len(d) : ReMatch(name, d[i].key)}

\* As get_outlet_number, with the length check ahead of the exact match.
get_outlet_number_LengthFirst(d, name, use_fuzzy) ==
    IF use_fuzzy /\ Len(name) < 2 THEN Raise(ErrTooShort)
    ELSE IF CIDContains(d, name) THEN Ok(CIDGet(d, name))
    ELSE IF ~use_fuzzy THEN Raise(ErrNotFound)
    ELSE IF Len(d) > 0 /\ ~PatternCompiles(name) THEN Raise(ErrRegex)
    ELSE LET m == FuzzyMatches(d, name) IN
         IF Cardinality(m) = 0 THEN Raise(ErrNotFound)
         ELSE IF Cardinality(m) > 1 THEN Raise(ErrAmbiguous)
         ELSE Ok(d[CHOOSE i \in m : TRUE].val)

get_outlet_number(d, name, use_fuzzy) ==
    IF CIDContains(d, name) THEN Ok(CIDGet(d, name))
    ELSE IF ~use_fuzzy THEN Raise(ErrNotFound)
    ELSE IF Len(name) < 2 THEN Raise(ErrTooShort)
    ELSE IF Len(d) > 0 /\ ~PatternCompiles(name) THEN Raise(ErrRegex)
    ELSE LET m == FuzzyMatches(d, name) IN
         IF Cardinality(m) = 0 THEN Raise(ErrNotFound)
         ELSE IF Cardinality(m) > 1 THEN Raise(ErrAmbiguous)
         ELSE Ok(d[CHOOSE i \in m : TRUE].val)

----------------------------------------------------------------------------
(* Outlet arguments.  An identifier is an int or a str; the argument of    *)
(* state/on/off is one identifier or a list of identifiers.                *)

IntId(i) == [t |-> "int", n |-> i, s |-> <<>>]
StrId(s) == [t |-> "str", n |-> 0, s |-> s]
One(id) == [list |-> FALSE, ids |-> <<id>>]
List(ids) == [list |-> TRUE, ids |-> ids]

\* outlets == "all"
IsAll(outlets) ==
    /\ ~outlets.list
    /\ outlets.ids[1].t = "str"
    /\ outlets.ids[1].s = ALL

\* _get_outlet_indices: the first n identifiers resolved in order; the first
\* failure is raised.
RECURSIVE IndicesUpTo(_, _, _)
IndicesUpTo(d, ids, n) ==
    IF n = 0 THEN Ok(<<>>)
    ELSE LET before == IndicesUpTo(d, ids, n - 1) IN
         IF ~before.ok THEN before
         ELSE IF ids[n].t = "int" THEN Ok(Append(before.val, ids[n].n))
         ELSE LET r == get_outlet_number(d, ids[n].s, TRUE) IN
              IF r.ok THEN Ok(Append(before.val, r.val)) ELSE r

get_outlet_indices(d, outlets) == IndicesUpTo(d, outlets.ids, Len(outlets.ids))

\* As IndexRoute, with each index written once, as ",".join(set(...)) would.
RECURSIVE Deduplicated(_)
Deduplicated(s) ==
    IF Len(s) = 0 THEN <<>>
    ELSE LET r == Deduplicated(SubSeq(s, 1, Len(s) - 1)) IN
         IF \E i \in 1..Len(r) : r[i] = s[Len(s)] THEN r ELSE Append(r, s[Len(s)])

IndexRouteDeduplicated(indices) ==
    LET u == Deduplicated(indices) IN
    <<"=">> \o Join(<<",">>, [i \in 1..Len(u) |-> Str(u[i])])

\* "=" + ",".join(map(str, indices))
IndexRoute(indices) ==
    <<"=">> \o Join(<<",">>, [i \in 1..Len(indices) |-> Str(indices[i])])

AllRoute == <<"a", "l", "l", ";">>

----------------------------------------------------------------------------
(* Requests.                                                               *)

NameRequest ==
    [method |-> "GET", path |-> <<"/relay/outlets/">> \o AllRoute \o <<"/name/">>,
     header |-> "Accept: application/json", value |-> "none"]

StateRequest(route) ==
    [method |-> "GET", path |-> <<"/relay/outlets/">> \o route \o <<"/state/">>,
     header |-> "none", value |-> "none"]

PutRequest(route, value) ==
    [method |-> "PUT", path |-> <<"/relay/outlets/">> \o route \o <<"/state/">>,
     header |-> "X-CSRF: x", value |-> IF value THEN "true" ELSE "false"]

----------------------------------------------------------------------------
(* The device's reading of a request path.                                 *)

DigitValue(c) == CHOOSE k \in 0..9 : Digits[k + 1] = c

RECURSIVE ParseInt(_)
ParseInt(s) ==
    IF Len(s) = 1 THEN DigitValue(s[1])
    ELSE 10 * ParseInt(SubSeq(s, 1, Len(s) - 1)) + DigitValue(s[Len(s)])

\* s.split(",")
RECURSIVE Split(_)
Split(s) ==
    IF \A i \in 1..Len(s) : s[i] # "," THEN <<s>>
    ELSE LET c == CHOOSE i \in 1..Len(s) :
                     s[i] = "," /\ \A j \in 1..(i - 1) : s[j] # ","
         IN <<SubSeq(s, 1, c - 1)>> \o Split(SubSeq(s, c + 1, Len(s)))

Selector(path) == SubSeq(path, 2, Len(path) - 1)

\* The outlet indices a selector names on a device with n outlets.
SelectedIndices(sel, n) ==
    IF sel = AllRoute THEN [i \in 1..n |-> i - 1]
    ELSE LET parts == Split(Tail(sel)) IN [i \in 1..Len(parts) |-> ParseInt(parts[i])]

\* The device answers 2xx only for indices it has; any request may also
\* fail for reasons of the device's own (see success in the responses).
DeviceAccepts(sel, n) ==
    LET idx == SelectedIndices(sel, n) IN \A i \in 1..Len(idx) : idx[i] < n

----------------------------------------------------------------------------
(* Coroutines.  A task is one call of reload/state/on/off; pc names the    *)
(* await it is suspended at.  sent and status record the requests the call *)
(* has issued and the status class of each response; seen is the           *)
(* outlet_to_name the call read when it went past _check_outlets;          *)
(* resolved, names and states are its locals indices, names and states.    *)

\* "caller" runs any operation; "reloader" runs reload() beside it.  The
\* registry is the only state the coroutines share and only reload()'s two
\* assignments write it, so a reload() is all a second coroutine can do to
\* the first.
Tasks == {"caller", "reloader"}

NoArg == List(<<>>)

Idle ==
    [pc |-> "idle", op |-> "none", outlets |-> NoArg, sent |-> <<>>, status |-> <<>>,
     seen |-> <<>>, resolved |-> <<>>, names |-> <<>>, states |-> <<>>,
     result |-> Ok(<<>>)]

Begin(op, outlets) == [Idle EXCEPT !.pc = "run", !.op = op, !.outlets = outlets]

\* The call returns or raises.
Finish(tk, r) == [tk EXCEPT !.pc = "done", !.result = r]

\* The call issues a request and suspends until the response.
Send(tk, pc, req) == [tk EXCEPT !.pc = pc, !.sent = Append(@, req)]

\* state(), lines 257-268: from _check_outlets' return to the awaited GET.
StateBody(tk, n2o, o2n) ==
    IF IsAll(tk.outlets)
    THEN Send([tk EXCEPT !.names = CIDKeys(n2o)], "state_get", StateRequest(AllRoute))
    ELSE LET r == get_outlet_indices(n2o, tk.outlets) IN
         IF ~r.ok THEN Finish(tk, r)
         ELSE IF Len(r.val) = 0 THEN Finish(tk, Raise(ErrNoOutlets))
         ELSE IF \E i \in 1..Len(r.val) : r.val[i] \notin 0..(Len(o2n) - 1)
              THEN Finish([tk EXCEPT !.resolved = r.val], Raise(ErrKey))
         ELSE Send([tk EXCEPT !.resolved = r.val,
                              !.names = [i \in 1..Len(r.val) |-> o2n[r.val[i] + 1]]],
                   "state_get", StateRequest(IndexRoute(r.val)))

\* _switch(), lines 207-220: from _check_outlets' return to the awaited PUT.
SwitchBody(tk, n2o) ==
    IF IsAll(tk.outlets)
    THEN Send(tk, "put", PutRequest(AllRoute, tk.op = "on"))
    ELSE LET r == get_outlet_indices(n2o, tk.outlets) IN
         IF ~r.ok THEN Finish(tk, r)
         ELSE IF Len(r.val) = 0 THEN Finish(tk, Raise(ErrNoOutlets))
         ELSE Send([tk EXCEPT !.resolved = r.val], "put",
                   PutRequest(IndexRoute(r.val), tk.op = "on"))

Body(tk, n2o, o2n) ==
    LET here == [tk EXCEPT !.seen = o2n] IN
    IF tk.op = "state" THEN StateBody(here, n2o, o2n) ELSE SwitchBody(here, n2o)

\* The awaited response arrived with a 2xx status or not; raise_for_status()
\* raises on every status that is not 2xx.
Received(tk, success) ==
    [tk EXCEPT !.status = Append(@, IF success THEN "2xx" ELSE "non2xx")]

\* As CheckOutlets, with on("all") and off("all") let past an empty registry.
CheckOutletsAllBypass(tk, n2o, o2n) ==
    IF Len(n2o) > 0 \/ (tk.op \in {"on", "off"} /\ IsAll(tk.outlets))
    THEN Body(tk, n2o, o2n)
    ELSE Send(tk, "check_get", NameRequest)

\* _check_outlets(), lines 227-231: return at once, or await reload().
CheckOutlets(tk, n2o, o2n) ==
    IF Len(n2o) > 0 THEN Body(tk, n2o, o2n)
    ELSE Send(tk, "check_get", NameRequest)

\* As CheckAfterReload, without the test of the reloaded registry.
CheckAfterReloadUnchecked(tk, n2o, o2n) == Body(tk, n2o, o2n)

\* _check_outlets(), lines 233-234, after the awaited reload().
CheckAfterReload(tk, n2o, o2n) ==
    IF Len(n2o) = 0 THEN Finish(tk, Raise(ErrEmpty))
    ELSE Body(tk, n2o, o2n)

\* As ReloadAssign, with only the first of the two assignments made.
ReloadAssignNamesOnly(n2o, o2n, data) ==
    [n2o |-> BuildNameToOutlet(data), o2n |-> o2n]

\* reload(), lines 130-131: both mappings are assigned from one response.
ReloadAssign(n2o, o2n, data) ==
    [n2o |-> BuildNameToOutlet(data), o2n |-> BuildOutletToName(data)]

\* dict(zip(names, states)): a repeated key keeps its first position and
\* takes the last value; zip stops at the shorter sequence.
RECURSIVE ZipDict(_, _, _)
ZipDict(names, states, n) ==
    IF n = 0 THEN <<>>
    ELSE LET d == ZipDict(names, states, n - 1) IN
         IF \E i \in 1..Len(d) : d[i].key = names[n]
         THEN [i \in 1..Len(d) |->
                 IF d[i].key = names[n] THEN [key |-> names[n], val |-> states[n]] ELSE d[i]]
         ELSE Append(d, [key |-> names[n], val |-> states[n]])

Min(a, b) == IF a < b THEN a ELSE b

StateResult(names, states) == ZipDict(names, states, Min(Len(names), Len(states)))

----------------------------------------------------------------------------
(* DLIController.__init__: the password.  A path or password is a sequence *)
(* of string pieces; "~" as first piece is the home directory.             *)

HomeDir == "/home/user"

\* pathlib.Path(p).expanduser()
ExpandUser(p) == IF Len(p) > 0 /\ p[1] = "~" THEN <<HomeDir>> \o Tail(p) ELSE p

\* str() of a YAML scalar.
ScalarStr(x) == IF x.t = "int" THEN Str(x.n) ELSE x.s

\* pathlib.Path(p).expanduser().is_file()
IsFile(fs, p) == fs.exists /\ fs.path = ExpandUser(p)

\* secrets_data.get("dli", {}).get(name, {}).get(user): None when the entry
\* is absent or null.
SecretsGet(fs, name, user) == fs.data[<<name, user>>]

DefaultPassword == <<"~", "/.secrets.yaml">>

\* As ResolvePassword, raising for every explicitly given argument.
ResolvePasswordAnyExplicit(name, user, arg, fs) ==
    LET password == IF arg.t = "none" THEN <<"~", "/.secrets.yaml">> ELSE arg.v
    IN IF fs.exists /\ fs.path = ExpandUser(password)
       THEN LET tmp == fs.data[<<name, user>>] IN
            IF tmp.t \notin {"absent", "null"} THEN Ok(ScalarStr(tmp))
            ELSE IF arg.t # "none" THEN Raise(ErrCred)
            ELSE Ok(password)
       ELSE Ok(password)

\* __init__, lines 60-76.  arg.t is "none" (omitted), "str" or "path".
ResolvePassword(name, user, arg, fs) ==
    LET password == IF arg.t = "none" THEN DefaultPassword ELSE arg.v
        isPath == arg.t = "path"
    IN IF IsFile(fs, password)
       THEN LET tmp == SecretsGet(fs, name, user) IN
            IF tmp.t \notin {"absent", "null"} THEN Ok(ScalarStr(tmp))
            ELSE IF isPath THEN Raise(ErrCred)
            ELSE Ok(password)
       ELSE Ok(password)

----------------------------------------------------------------------------
(* Inputs.                                                                 *)

\* Names a device may give its outlets.
DeviceNames == {<<"a", "b">>, <<"A", "B">>, <<"b", "a">>}

\* The device's outlets carry different strings, which may still differ
\* only in letter case.
NameLists ==
    {l \in SeqsOf(DeviceNames, 0, MaxOutlets) :
        \A i, j \in 1..Len(l) : i # j => l[i] # l[j]}

\* Names in the registries get_outlet_number is queried on directly.
OutletNames ==
    {<<"a">>, <<"a", "b">>, <<"A", "B">>, <<"a", "b", "b">>, <<"b", "a">>, <<"a", ".">>}

RegistryLists == SeqsOf(OutletNames, 0, MaxOutlets)

IdChars == {"a", "A", "b", ".", "("}

Identifiers == SeqsOf(IdChars, 0, MaxIdLen)

OutletArgs ==
    {One(StrId(ALL)), One(StrId(<<"a", "b">>)), One(StrId(<<"b">>)),
     One(IntId(0)), One(IntId(MaxOutlets)),
     List(<<>>), List(<<IntId(1), IntId(0)>>), List(<<StrId(<<"b", "a">>), IntId(0)>>)}

ControllerNames == {"dli1", "dli2"}
Users == {"admin", "guest"}

EntryValues ==
    {[t |-> "absent", n |-> 0, s |-> <<>>], [t |-> "null", n |-> 0, s |-> <<>>],
     [t |-> "str", n |-> 0, s |-> <<"pw">>], [t |-> "int", n |-> 12, s |-> <<>>]}

SecretsPaths == {<<HomeDir, "/.secrets.yaml">>, <<"/etc/dli.yaml">>}

PasswordArgs ==
    {[t |-> "none", v |-> <<>>]}
    \cup {[t |-> k, v |-> p] :
            k \in {"str", "path"},
            p \in {DefaultPassword, <<"/etc/dli.yaml">>, <<"hunter2">>}}

FileSystems ==
    [exists : BOOLEAN, path : SecretsPaths,
     data : [ControllerNames \X Users -> EntryValues]]

NoQuery == [name |-> <<>>, use_fuzzy |-> TRUE, called |-> FALSE, result |-> Ok(0)]

NoCtor ==
    [name |-> "dli1", user |-> "admin", password |-> [t |-> "none", v |-> <<>>],
     fs |-> [exists |-> FALSE, path |-> <<"/etc/dli.yaml">>,
             data |-> [k \in ControllerNames \X Users |-> [t |-> "absent", n |-> 0, s |-> <<>>]]],
     called |-> FALSE, result |-> Ok(<<>>)]

----------------------------------------------------------------------------
(* The controller and its device: the operations interleaved.              *)

Init ==
    /\ name_to_outlet = <<>>
    /\ outlet_to_name = <<>>
    /\ devNames \in NameLists
    /\ task = [t \in Tasks |-> Idle]
    /\ query = NoQuery
    /\ ctor = NoCtor

CallReload(t) ==
    /\ task[t].pc = "idle"
    /\ task' = [task EXCEPT ![t] = Send(Begin("reload", NoArg), "reload_get", NameRequest)]
    /\ UNCHANGED <<name_to_outlet, outlet_to_name, devNames, query, ctor>>

CallState(t, outlets) ==
    /\ task[t].pc = "idle"
    /\ task' = [task EXCEPT ![t] =
                  CheckOutlets(Begin("state", outlets), name_to_outlet, outlet_to_name)]
    /\ UNCHANGED <<name_to_outlet, outlet_to_name, devNames, query, ctor>>

CallOn(t, outlets) ==
    /\ task[t].pc = "idle"
    /\ task' = [task EXCEPT ![t] =
                  CheckOutlets(Begin("on", outlets), name_to_outlet, outlet_to_name)]
    /\ UNCHANGED <<name_to_outlet, outlet_to_name, devNames, query, ctor>>

CallOff(t, outlets) ==
    /\ task[t].pc = "idle"
    /\ task' = [task EXCEPT ![t] =
                  CheckOutlets(Begin("off", outlets), name_to_outlet, outlet_to_name)]
    /\ UNCHANGED <<name_to_outlet, outlet_to_name, devNames, query, ctor>>

\* The name GET of reload() completes: get() raises on a non-2xx status,
\* else reload() assigns the registry and its caller goes on.
RespondNames(t, success) ==
    /\ task[t].pc \in {"reload_get", "check_get"}
    /\ IF ~success
       THEN /\ task' = [task EXCEPT ![t] = Finish(Received(@, FALSE), Raise(ErrHttp))]
            /\ UNCHANGED <<name_to_outlet, outlet_to_name>>
       ELSE LET a == ReloadAssign(name_to_outlet, outlet_to_name, devNames) IN
            /\ name_to_outlet' = a.n2o
            /\ outlet_to_name' = a.o2n
            /\ task' = [task EXCEPT ![t] =
                          IF @.pc = "reload_get" THEN Finish(Received(@, TRUE), Ok(<<>>))
                          ELSE CheckAfterReload(Received(@, TRUE), a.n2o, a.o2n)]
    /\ UNCHANGED <<devNames, query, ctor>>

\* The state GET completes, lines 268-271.  The device reports the states
\* its outlets have at that moment, which the controller does not own.
RespondState(t, success, states) ==
    /\ task[t].pc = "state_get"
    /\ LET tk == task[t]
           sel == Selector(tk.sent[Len(tk.sent)].path)
           n == Len(devNames)
       IN IF success /\ DeviceAccepts(sel, n)
          THEN /\ Len(states) = Len(SelectedIndices(sel, n))
               /\ task' = [task EXCEPT ![t] =
                             Finish([Received(@, TRUE) EXCEPT !.states = states],
                                    Ok(StateResult(tk.names, states)))]
          ELSE /\ states = <<>>
               /\ task' = [task EXCEPT ![t] = Finish(Received(@, FALSE), Raise(ErrHttp))]
    /\ UNCHANGED <<name_to_outlet, outlet_to_name, devNames, query, ctor>>

\* The PUT completes, put() lines 105-109 and _switch line 222.
RespondPut(t, success) ==
    /\ task[t].pc = "put"
    /\ LET tk == task[t]
           sel == Selector(tk.sent[Len(tk.sent)].path)
       IN IF success /\ DeviceAccepts(sel, Len(devNames))
          THEN task' = [task EXCEPT ![t] = Finish(Received(@, TRUE), Ok(TRUE))]
          ELSE task' = [task EXCEPT ![t] = Finish(Received(@, FALSE), Raise(ErrHttp))]
    /\ UNCHANGED <<name_to_outlet, outlet_to_name, devNames, query, ctor>>

\* The caller takes the outcome; the task slot is free again.
Return(t) ==
    /\ task[t].pc = "done"
    /\ task' = [task EXCEPT ![t] = Idle]
    /\ UNCHANGED <<name_to_outlet, outlet_to_name, devNames, query, ctor>>

\* Outlet i of the device is renamed behind the controller.
DeviceRename(i, name) ==
    /\ i \in 1..Len(devNames)
    /\ \A j \in 1..Len(devNames) : devNames[j] # name
    /\ devNames' = [devNames EXCEPT ![i] = name]
    /\ UNCHANGED <<name_to_outlet, outlet_to_name, task, query, ctor>>

Next ==
    \/ \E t \in Tasks : CallReload(t)
    \/ \E o \in OutletArgs : CallState("caller", o)
    \/ \E o \in OutletArgs : CallOn("caller", o)
    \/ \E o \in OutletArgs : CallOff("caller", o)
    \/ \E t \in Tasks, s \in BOOLEAN : RespondNames(t, s)
    \/ \E t \in Tasks, s \in BOOLEAN, st \in SeqsOf(BOOLEAN, 0, MaxOutlets) :
          RespondState(t, s, st)
    \/ \E t \in Tasks, s \in BOOLEAN : RespondPut(t, s)
    \/ \E t \in Tasks : Return(t)
    \/ \E i \in 1..MaxOutlets, name \in DeviceNames : DeviceRename(i, name)

Spec == Init /\ [][Next]_vars

----------------------------------------------------------------------------
(* get_outlet_number called directly on a loaded registry.                 *)

InitResolve ==
    /\ \E data \in RegistryLists :
          /\ name_to_outlet = BuildNameToOutlet(data)
          /\ outlet_to_name = BuildOutletToName(data)
          /\ devNames = data
    /\ task = [t \in Tasks |-> Idle]
    /\ query \in [name : Identifiers, use_fuzzy : BOOLEAN,
                  called : {FALSE}, result : {Ok(0)}]
    /\ ctor = NoCtor

GetOutletNumber ==
    /\ ~query.called
    /\ query' = [query EXCEPT !.called = TRUE,
                   !.result = get_outlet_number(name_to_outlet, query.name, query.use_fuzzy)]
    /\ UNCHANGED <<name_to_outlet, outlet_to_name, devNames, task, ctor>>

NextResolve == GetOutletNumber

SpecResolve == InitResolve /\ [][NextResolve]_vars

----------------------------------------------------------------------------
(* DLIController(name, host, user, password=...) called once.              *)

InitCtor ==
    /\ name_to_outlet = <<>>
    /\ outlet_to_name = <<>>
    /\ devNames = <<>>
    /\ task = [t \in Tasks |-> Idle]
    /\ query = NoQuery
    /\ ctor \in [name : ControllerNames, user : Users, password : PasswordArgs,
                 fs : FileSystems, called : {FALSE}, result : {Ok(<<>>)}]

Construct ==
    /\ ~ctor.called
    /\ ctor' = [ctor EXCEPT !.called = TRUE,
                  !.result = ResolvePassword(ctor.name, ctor.user, ctor.password, ctor.fs)]
    /\ UNCHANGED <<name_to_outlet, outlet_to_name, devNames, task, query>>

NextCtor == Construct

SpecCtor == InitCtor /\ [][NextCtor]_vars

----------------------------------------------------------------------------
(* Properties.                                                             *)

SwitchOps == {"on", "off"}
OutletOps == {"state", "on", "off"}

PutsOf(tk) == {i \in 1..Len(tk.sent) : tk.sent[i].method = "PUT"}
NameGetsOf(tk) == {i \in 1..Len(tk.sent) : tk.sent[i] = NameRequest}

\* The call went past _check_outlets into the operation's own code.
PastCheck(tk) ==
    \/ tk.pc \in {"state_get", "put"}
    \/ /\ tk.pc = "done"
       /\ tk.result.err # ErrEmpty
       /\ ~(tk.sent = <<NameRequest>> /\ tk.status = <<"non2xx">>)

ResolutionErrors == {ErrNotFound, ErrTooShort, ErrAmbiguous, ErrRegex, ErrNoOutlets}

\* C1, as claimed: on("all") and off("all") bypass the registry; a finished
\* call has sent the PUT with selector all; also when the registry was empty
\* and the device's name list is empty or could not be loaded, and it never
\* fails with "No outlets found.".
C1_AllBypassesRegistry ==
    \A t \in Tasks :
       LET tk == task[t] IN
       (tk.op \in SwitchOps /\ IsAll(tk.outlets) /\ tk.pc = "done") =>
          /\ \E i \in PutsOf(tk) : tk.sent[i] = PutRequest(AllRoute, tk.op = "on")
          /\ tk.result.err # ErrEmpty

\* C1, amended: on("all") and off("all") go through _check_outlets like every
\* operation.  The PUT with selector all; is sent only by a call that read a
\* non-empty registry, as its only request or right after the one name GET; a
\* call that finds the registry empty after its reload raises "No outlets
\* found." having sent the name GET alone, and a failed name GET raises the
\* HTTP error having sent no PUT; state("all") fails the same way.
C1_AllGoesThroughCheckOutlets ==
    \A t \in Tasks :
       LET tk == task[t]
           put == PutRequest(AllRoute, tk.op = "on")
       IN /\ (tk.op \in SwitchOps /\ IsAll(tk.outlets)) =>
                /\ PutsOf(tk) # {} =>
                      /\ Len(tk.seen) > 0
                      /\ tk.sent = <<put>> \/ tk.sent = <<NameRequest, put>>
                /\ (tk.pc = "done" /\ tk.result.ok) =>
                      /\ Cardinality(PutsOf(tk)) = 1
                      /\ tk.result.val = TRUE
                /\ (tk.pc = "done" /\ ~tk.result.ok) =>
                      /\ tk.result.err \in {ErrEmpty, ErrHttp}
                      /\ PutsOf(tk) = {} => tk.sent = <<NameRequest>>
                      /\ tk.result.err = ErrEmpty => tk.status = <<"2xx">> /\ PutsOf(tk) = {}
          /\ (tk.op = "state" /\ IsAll(tk.outlets) /\ tk.pc = "done"
                /\ tk.result.err = ErrEmpty) =>
                /\ tk.sent = <<NameRequest>>
                /\ tk.status = <<"2xx">>

\* on("all") on an empty registry of a device without outlets: the reload
\* leaves the registry empty and the call raises without a PUT.
C1_Witness ==
    \E t \in Tasks :
       /\ task[t].op \in SwitchOps
       /\ IsAll(task[t].outlets)
       /\ task[t].pc = "done"
       /\ task[t].result.err = ErrEmpty
       /\ devNames = <<>>

\* C2, as claimed: in every reachable state the two mappings are mutual
\* inverses: as many entries in one as in the other, every index's name is a
\* key (case-insensitively) mapped to that index, and every key's index
\* carries that key's name.
C2_MappingsMutualInverses ==
    /\ Len(name_to_outlet) = Len(outlet_to_name)
    /\ \A i \in 1..Len(outlet_to_name) :
          \E k \in 1..Len(name_to_outlet) :
             /\ name_to_outlet[k].val = i - 1
             /\ Lower(name_to_outlet[k].key) = Lower(outlet_to_name[i])
    /\ \A k \in 1..Len(name_to_outlet) :
          /\ name_to_outlet[k].val \in 0..(Len(outlet_to_name) - 1)
          /\ Lower(outlet_to_name[name_to_outlet[k].val + 1]) = Lower(name_to_outlet[k].key)

\* identifier is, character by character and ignoring case, the start of name.
LiteralPrefix(identifier, name) ==
    /\ Len(name) >= Len(identifier)
    /\ \A i \in 1..Len(identifier) : LowerChar(identifier[i]) = LowerChar(name[i])

\* C3, as claimed: a fuzzy query without exact match is too short below two
\* characters; otherwise it is decided by the number of registered names that
\* literally start with it, ignoring case: none is not found, one gives that
\* name's index, more are ambiguous; whatever characters the query holds.
C3_FuzzyIsLiteralPrefix ==
    (query.called /\ query.use_fuzzy /\ ~CIDContains(name_to_outlet, query.name)) =>
       LET m == {k \in 1..Len(name_to_outlet) :
                    LiteralPrefix(query.name, name_to_outlet[k].key)}
       IN IF Len(query.name) < 2 THEN query.result.err = ErrTooShort
          ELSE IF m = {} THEN query.result.err = ErrNotFound
          ELSE IF Cardinality(m) = 1
               THEN /\ query.result.ok
                    /\ \E k \in m : query.result.val = name_to_outlet[k].val
          ELSE query.result.err = ErrAmbiguous

\* C4: an identifier equal, ignoring case, to a registered name gets that
\* name's index, with and without fuzzy matching, also when it is shorter
\* than two characters or starts other registered names.
C4_ExactMatchFirst ==
    query.called =>
       \A k \in 1..Len(name_to_outlet) :
          Lower(name_to_outlet[k].key) = Lower(query.name) =>
             /\ query.result.ok
             /\ query.result.val = name_to_outlet[k].val
             /\ Lower(devNames[query.result.val + 1]) = Lower(query.name)

\* A one-character query in another case than the registered name it equals,
\* which also starts a second registered name.
C4_Witness ==
    /\ query.called
    /\ query.use_fuzzy
    /\ query.result.ok
    /\ Len(query.name) = 1
    /\ \E k, j \in 1..Len(name_to_outlet) :
          /\ Lower(name_to_outlet[k].key) = Lower(query.name)
          /\ name_to_outlet[k].key # query.name
          /\ j # k
          /\ LiteralPrefix(query.name, name_to_outlet[j].key)

\* C5, as claimed: state("all") on a registry loaded from name list N
\* returns a mapping whose keys are all the names of N and in which the name
\* of every outlet i maps to the state the device reported at position i.
C5_StateAllByIndex ==
    \A t \in Tasks :
       LET tk == task[t]
           N == tk.seen
       IN (tk.op = "state" /\ IsAll(tk.outlets) /\ tk.pc = "done" /\ tk.result.ok
             /\ Len(tk.states) = Len(N)) =>
             /\ {tk.result.val[k].key : k \in 1..Len(tk.result.val)}
                   = {N[i] : i \in 1..Len(N)}
             /\ \A i \in 1..Len(N) :
                   \E k \in 1..Len(tk.result.val) :
                      /\ tk.result.val[k].key = N[i]
                      /\ tk.result.val[k].val = tk.states[i]

\* C6: on/off of identifiers that resolve to a non-empty index list sends
\* exactly one PUT, as the call's last request, to
\* /relay/outlets/=i1,...,ik/state/ with the indices in request order and
\* duplicates kept, the value of the operation and the header X-CSRF: x; the
\* call returns True only after a 2xx response to it, raises the HTTP error
\* after any other response, sends nothing after a response it raised on,
\* and sends no PUT when resolution fails.
C6_SwitchSendsOnePut ==
    \A t \in Tasks :
       LET tk == task[t]
           puts == PutsOf(tk)
           n == Len(tk.sent)
       IN (tk.op \in SwitchOps /\ ~IsAll(tk.outlets)) =>
             /\ Cardinality(puts) <= 1
             /\ (tk.resolved # <<>>) <=> (puts # {})
             /\ \A k \in puts :
                   LET req == tk.sent[k] IN
                   /\ k = n
                   /\ req.path[1] = "/relay/outlets/"
                   /\ req.path[Len(req.path)] = "/state/"
                   /\ Selector(req.path)[1] = "="
                   /\ SelectedIndices(Selector(req.path), 0) = tk.resolved
                   /\ tk.resolved = <<0, 0>> => Selector(req.path) = <<"=", "0", ",", "0">>
                   /\ req.value = (IF tk.op = "on" THEN "true" ELSE "false")
                   /\ req.header = "X-CSRF: x"
             /\ tk.pc = "done" =>
                   /\ Len(tk.status) = n
                   /\ tk.result.ok =>
                         /\ tk.result.val = TRUE
                         /\ puts # {}
                         /\ tk.status[n] = "2xx"
                   /\ (puts # {} /\ tk.status[n] = "non2xx") =>
                         /\ ~tk.result.ok
                         /\ tk.result.err = ErrHttp
                   /\ tk.result.err \in ResolutionErrors => puts = {}

\* off(["ba", 0]) where "ba" names outlet 0: one PUT to =0,0 answered 2xx.
C6_Witness ==
    \E t \in Tasks :
       /\ task[t].op = "off"
       /\ task[t].pc = "done"
       /\ task[t].result.ok
       /\ task[t].resolved = <<0, 0>>
       /\ Cardinality(PutsOf(task[t])) = 1

\* A YAML scalar is found: neither absent nor null.
C7_Found(e) == e.t \in {"str", "int"}

C7_Given == IF ctor.password.t = "none" THEN DefaultPassword ELSE ctor.password.v

C7_Entry == ctor.fs.data[<<ctor.name, ctor.user>>]

C7_FileThere == ctor.fs.exists /\ ctor.fs.path = ExpandUser(C7_Given)

\* C7, as claimed: an explicitly given password that names an existing
\* secrets file without the entry fails construction, passed as a string or
\* as a path object; only the omitted argument falls back to the path string.
C7_ExplicitPathWithoutEntryFails ==
    (ctor.called /\ C7_FileThere /\ ~C7_Found(C7_Entry)) =>
       IF ctor.password.t = "none"
       THEN ctor.result.ok /\ ctor.result.val = DefaultPassword
       ELSE ~ctor.result.ok /\ ctor.result.err = ErrCred

\* C7, amended: construction fails only when the password argument is a
\* path object naming an existing secrets file without the entry; a string
\* naming such a file, given or defaulted, is itself the password.  A found
\* entry is the password, as a string; without a file at the path the
\* argument is the password.
C7_OnlyPathObjectFails ==
    ctor.called =>
       IF C7_FileThere /\ C7_Found(C7_Entry)
       THEN /\ ctor.result.ok
            /\ ctor.result.val = (IF C7_Entry.t = "int" THEN <<"1", "2">> ELSE <<"pw">>)
       ELSE IF C7_FileThere /\ ctor.password.t = "path"
       THEN ~ctor.result.ok /\ ctor.result.err = ErrCred
       ELSE ctor.result.ok /\ ctor.result.val = C7_Given

\* A string that names an existing secrets file without the entry becomes
\* the password.
C7_Witness ==
    /\ ctor.called
    /\ ctor.password.t = "str"
    /\ C7_FileThere
    /\ ~C7_Found(C7_Entry)
    /\ ctor.result.ok
    /\ ctor.result.val = <<"/etc/dli.yaml">>

\* C8, as claimed: a call with an integer identifier i that got past
\* _check_outlets has sent a request with selector =i, and fails only with
\* the device's HTTP error.
C8_IntegerSentUnchecked ==
    \A t \in Tasks :
       LET tk == task[t] IN
       (tk.op \in OutletOps /\ ~tk.outlets.list /\ tk.outlets.ids[1].t = "int"
          /\ tk.pc = "done" /\ PastCheck(tk)) =>
          /\ Len(tk.sent) > 0
          /\ Selector(tk.sent[Len(tk.sent)].path) = <<"=">> \o Str(tk.outlets.ids[1].n)
          /\ ~tk.result.ok => tk.result.err = ErrHttp

\* C9, in every state: an operation sends at most one name GET; one that
\* went past _check_outlets read a non-empty registry; one that raised "No
\* outlets found." sent the name GET, got a 2xx response and sent nothing else.
C9_CheckOutletsState ==
    \A t \in Tasks :
       LET tk == task[t] IN
       tk.op \in OutletOps =>
          /\ Cardinality(NameGetsOf(tk)) <= 1
          /\ NameGetsOf(tk) \subseteq {1}
          /\ PastCheck(tk) => Len(tk.seen) > 0
          /\ (tk.pc = "done" /\ tk.result.err = ErrEmpty) =>
                /\ tk.sent = <<NameRequest>>
                /\ tk.status = <<"2xx">>
                /\ tk.seen = <<>>

\* C9, in every step: a call that starts on a non-empty registry sends no
\* name GET and one that starts on an empty registry sends exactly the name
\* GET; after the response the call raises "No outlets found." exactly when
\* the registry is still empty.
C9_CheckOutletsStep ==
    \A t \in Tasks :
       /\ (task[t].pc = "idle" /\ task'[t].op \in OutletOps) =>
             IF Len(name_to_outlet) > 0
             THEN NameGetsOf(task'[t]) = {} /\ task'[t].pc # "check_get"
             ELSE task'[t].sent = <<NameRequest>> /\ task'[t].pc = "check_get"
       /\ (task[t].pc = "check_get" /\ task'[t].pc # "check_get"
             /\ task'[t].status = <<"2xx">>) =>
             (task'[t].result.err = ErrEmpty <=> Len(name_to_outlet') = 0)

\* C9: _check_outlets reloads once when the registry is empty and never
\* otherwise, returns only on a non-empty registry, and after raising "No
\* outlets found." the operation sends no state GET or PUT.
C9_CheckOutletsReloadsOnce == []C9_CheckOutletsState /\ [][C9_CheckOutletsStep]_vars

\* state of an outlet on an empty registry: the one name GET, then the
\* state GET, answered.
C9_Witness ==
    \E t \in Tasks :
       /\ task[t].op = "state"
       /\ task[t].pc = "done"
       /\ task[t].result.ok
       /\ Len(task[t].sent) = 2
       /\ task[t].sent[1] = NameRequest

\* C10: in every state both mappings come from one response, whatever the
\* interleaving; and a state() call resolved its names to indices and looked
\* its indices up in one and the same registry.
C10_RegistryNeverTorn ==
    /\ \E data \in NameLists :
          /\ name_to_outlet = BuildNameToOutlet(data)
          /\ outlet_to_name = data
    /\ \A t \in Tasks :
          LET tk == task[t]
              n2o == BuildNameToOutlet(tk.seen)
          IN (tk.op = "state" /\ tk.pc = "state_get") =>
                IF IsAll(tk.outlets) THEN tk.names = CIDKeys(n2o)
                ELSE /\ get_outlet_indices(n2o, tk.outlets).ok
                     /\ get_outlet_indices(n2o, tk.outlets).val = tk.resolved
                     /\ tk.names = [i \in 1..Len(tk.resolved) |-> tk.seen[tk.resolved[i] + 1]]

\* A reload() completed while state() was suspended at its GET: the registry
\* is no longer the one the call read.
C10_Witness ==
    \E t \in Tasks :
       /\ task[t].op = "state"
       /\ task[t].pc = "state_get"
       /\ task[t].resolved # <<>>
       /\ outlet_to_name # task[t].seen
       /\ task["reloader"].pc = "done"

====
